---- MODULE Spec2Model ----
(***************************************************************************)
(* Trust-game experiment (src/experiment.js), its data submitter           *)
(* (src/data-submitter.js, OSF version) and the OSF DataPipe client        *)
(* (src/unnamed/part_006), as one state machine.                           *)
(*                                                                         *)
(* One page holds one TrustGameExperiment instance.  Every UI action is a  *)
(* button of the screen that is currently rendered, so each action is      *)
(* guarded by the screen that carries its button.  The wall-clock readings *)
(* (new Date().toISOString(), Date.now()) are environment values that no   *)
(* operation reads back; each is drawn from a one-element set.             *)
(***************************************************************************)
EXTENDS Integers, Sequences, FiniteSets, TLC

\* ------------------------------------------------------------------ bounds
\* longest text the participant types into the age input
MaxAgeLen == 3
\* number of confirmed restarts explored on one page
MaxRestarts == 1

\* ------------------------------------------------------- program constants
totalRounds == 5
Endowment == 10
Multiplier == 3
MinAge == 18
\* returnRates = [0.3, 0.6, 0.1, 0.8, 0.4], held in tenths
RateDen == 10
returnRates == <<3, 6, 1, 8, 4>>
\* the three decision buttons of showTrustDecision
Amounts == {0, 5, 10}

\* --------------------------------------------------------- input alphabets
\* characters the participant types into <input type="number" id="age">
AgeChars == {"1", "8", "e"}
GenderInputs == {"", "female"}
FieldInputs == {"", "psychology"}
ParticipantIds == {"P1"}
\* new Date().toISOString() and Date.now() - decisionStartTime
Timestamps == {"2024-05-01T10:00:00.000Z"}
ReactionTimes == {1200}
\* the narrower choices of a participant who is followed across restarts:
\* no age, a minor's age or an adult's age; no field of study; the two outer
\* decision buttons in the first session and the last one after a restart
RestartAgeTexts == {<<>>, <<"1", "1">>, <<"1", "8">>}
RestartFieldInputs == {""}
CsvFieldInputs == {"", "psychology", "nurse\",\"carer"}
RestartAmounts(n) == IF n = 0 THEN {0, 10} ELSE {10}

\* the empty object literal {}
EmptyObj == <<>>

VARIABLES
    screen,         \* the screen rendered in #content
    currentRound,   \* this.currentRound
    participantId,  \* this.participantId
    data,           \* this.data
    errorVisible,   \* #error-msg without the class "hidden"
    ageText,        \* text typed into #age
    genderText,     \* text typed into #gender
    fieldText,      \* text typed into #field
    statusEl,       \* #data-submission-status: "none" when not in the page
    sub,            \* one record per call of DataSubmitter.submitData
    localStorage,   \* window.localStorage, key -> envelope
    saveCalls,      \* calls of saveToLocalStorage so far
    unhandled,      \* an async function ended in an unhandled rejection
    restarts        \* confirmed restarts so far

uiVars == <<screen, currentRound, participantId, data, errorVisible>>
formVars == <<ageText, genderText, fieldText>>
pipeVars == <<statusEl, sub, localStorage, saveCalls, unhandled>>
vars == <<uiVars, formVars, pipeVars, restarts>>

\* ----------------------------------------------------------- number texts
RECURSIVE Pow10(_)
Pow10(n) == IF n = 0 THEN 1 ELSE 10 * Pow10(n - 1)

IsDigit(c) == c \in {"0", "1", "2", "3", "4", "5", "6", "7", "8", "9"}

DigitVal(c) ==
    CASE c = "0" -> 0 [] c = "1" -> 1 [] c = "2" -> 2 [] c = "3" -> 3
      [] c = "4" -> 4 [] c = "5" -> 5 [] c = "6" -> 6 [] c = "7" -> 7
      [] c = "8" -> 8 [] c = "9" -> 9

AllDigits(s) == \A i \in 1..Len(s) : IsDigit(s[i])

RECURSIVE DigitsVal(_)
DigitsVal(s) ==
    IF Len(s) = 0 THEN 0
    ELSE 10 * DigitsVal(SubSeq(s, 1, Len(s) - 1)) + DigitVal(s[Len(s)])

\* position of the exponent mark, 0 when there is none
ExpPos(s) ==
    IF \E i \in 1..Len(s) : s[i] = "e"
    THEN CHOOSE i \in 1..Len(s) : s[i] = "e" /\ \A j \in 1..(i - 1) : s[j] # "e"
    ELSE 0

\* a valid floating-point number over digits and "e": digits+ [e digits+]
IsValidNumber(s) ==
    LET p == ExpPos(s) IN
    IF p = 0 THEN Len(s) > 0 /\ AllDigits(s)
    ELSE /\ p > 1 /\ p < Len(s)
         /\ AllDigits(SubSeq(s, 1, p - 1))
         /\ AllDigits(SubSeq(s, p + 1, Len(s)))

\* value sanitization of <input type="number">: not a number -> ""
InputValue(text) == IF IsValidNumber(text) THEN text ELSE <<>>

\* ToNumber of a sanitized, non-empty value.  A double holds every number
\* these texts denote; here a value of a million or more is held as a
\* million, which the only reader (the comparison with 18) cannot tell apart
ToNumber(s) ==
    LET p == ExpPos(s)
        million == 1000000
        mantissa == IF p = 0 THEN DigitsVal(s) ELSE DigitsVal(SubSeq(s, 1, p - 1))
        exponent == IF p = 0 THEN 0 ELSE DigitsVal(SubSeq(s, p + 1, Len(s)))
    IN IF mantissa = 0 THEN 0
       ELSE IF mantissa >= million \/ exponent > 6 THEN million
       ELSE IF mantissa * Pow10(exponent) >= million THEN million
       ELSE mantissa * Pow10(exponent)

\* length of the leading run of digits
RECURSIVE LeadingDigits(_)
LeadingDigits(s) ==
    IF Len(s) = 0 \/ ~IsDigit(s[1]) THEN 0 ELSE 1 + LeadingDigits(Tail(s))

\* parseInt: the leading run of digits, read in base 10
parseInt(s) == DigitsVal(SubSeq(s, 1, LeadingDigits(s)))

RECURSIVE TextsUpTo(_)
TextsUpTo(n) ==
    IF n = 0 THEN {<<>>}
    ELSE LET shorter == TextsUpTo(n - 1) IN
         shorter \cup {Append(t, c) : t \in shorter, c \in AgeChars}

\* every text over AgeChars of at most MaxAgeLen characters, and the age 25
AgeTexts == TextsUpTo(MaxAgeLen) \cup {<<"2", "5">>}

\* ------------------------------------------------------------------ payoffs
RECURSIVE SumOver(_, _)
SumOver(s, field) ==
    IF Len(s) = 0 THEN 0 ELSE s[1][field] + SumOver(Tail(s), field)

\* TrialData with a zero-based round number
TrialData_zeroBased(round, amountSent, now, reactionTime) ==
    [round |-> round - 1,
     amount_sent |-> amountSent,
     amount_kept |-> Endowment - amountSent,
     partner_received |-> amountSent * Multiplier + Endowment,
     amount_returned |-> (amountSent * Multiplier * returnRates[round]) \div RateDen,
     final_earnings |-> (Endowment - amountSent)
                          + (amountSent * Multiplier * returnRates[round]) \div RateDen,
     return_rate |-> returnRates[round],
     timestamp |-> now,
     reaction_time |-> reactionTime]

\* TrialData with the return rounded up (Math.ceil for Math.floor)
TrialData_ceil(round, amountSent, now, reactionTime) ==
    LET amountReturned ==
            (amountSent * Multiplier * returnRates[round] + RateDen - 1) \div RateDen
    IN [round |-> round,
        amount_sent |-> amountSent,
        amount_kept |-> Endowment - amountSent,
        partner_received |-> amountSent * Multiplier + Endowment,
        amount_returned |-> amountReturned,
        final_earnings |-> (Endowment - amountSent) + amountReturned,
        return_rate |-> returnRates[round],
        timestamp |-> now,
        reaction_time |-> reactionTime]

\* the trialData literal of makeDecision
TrialData(round, amountSent, now, reactionTime) ==
    LET partnerReceived == amountSent * Multiplier + Endowment
        amountReturned == (amountSent * Multiplier * returnRates[round]) \div RateDen
        finalEarnings == (Endowment - amountSent) + amountReturned
    IN [round |-> round,
        amount_sent |-> amountSent,
        amount_kept |-> Endowment - amountSent,
        partner_received |-> partnerReceived,
        amount_returned |-> amountReturned,
        final_earnings |-> finalEarnings,
        return_rate |-> returnRates[round],
        timestamp |-> now,
        reaction_time |-> reactionTime]

\* a quotient of two integers; den = 0 is the NaN of 0/0
Quot(num, den) == [num |-> num, den |-> den]
IsNaN(q) == q.den = 0
\* q >= k; every comparison with NaN is false
QuotGeq(q, k) == ~IsNaN(q) /\ q.num >= k * q.den
QuotEq(p, q) == ~IsNaN(p) /\ ~IsNaN(q) /\ p.num * q.den = q.num * p.den

\* q > k
QuotGt(q, k) == ~IsNaN(q) /\ q.num > k * q.den

\* analyzeTrustPattern with > for >=
analyzeTrustPattern_strict(trials) ==
    LET avgAmount == Quot(SumOver(trials, "amount_sent"), Len(trials)) IN
    IF QuotGt(avgAmount, 8) THEN "High Trust"
    ELSE IF QuotGt(avgAmount, 5) THEN "Moderate Trust"
    ELSE IF QuotGt(avgAmount, 2) THEN "Low Trust"
    ELSE "Very Low Trust"

analyzeTrustPattern(trials) ==
    LET avgAmount == Quot(SumOver(trials, "amount_sent"), Len(trials)) IN
    IF QuotGeq(avgAmount, 8) THEN "High Trust"
    ELSE IF QuotGeq(avgAmount, 5) THEN "Moderate Trust"
    ELSE IF QuotGeq(avgAmount, 2) THEN "Low Trust"
    ELSE "Very Low Trust"

\* ------------------------------------------------------------- objects
Has(obj, key) == key \in DOMAIN obj
IsEmptyObj(obj) == DOMAIN obj = {}

\* String(n) of a quotient: "NaN", an integer, or one decimal place
NumberText(q) ==
    IF IsNaN(q) THEN "NaN"
    ELSE IF q.num % q.den = 0 THEN ToString(q.num \div q.den)
    ELSE ToString(q.num \div q.den) \o "." \o ToString(((q.num * 10) \div q.den) % 10)

\* `${n || ''}` of an integer property that may be missing: 0 is falsy
IntOrEmpty(obj, key) ==
    IF Has(obj, key) /\ obj[key] # 0 THEN ToString(obj[key]) ELSE ""

\* `${s || ''}` of a string property that may be missing
StrOrEmpty(obj, key) == IF Has(obj, key) THEN obj[key] ELSE ""

\* `${q || ''}` of a quotient property that may be missing: 0 and NaN are falsy
QuotOrEmpty(obj, key) ==
    IF Has(obj, key) /\ ~IsNaN(obj[key]) /\ obj[key].num # 0
    THEN NumberText(obj[key]) ELSE ""

\* ------------------------------------------------------------- CSV export
headers ==
    <<"participant_id", "experiment", "version", "participant_timestamp",
      "age", "gender", "field", "round", "amount_sent", "amount_kept",
      "partner_received", "amount_returned", "final_earnings", "return_rate",
      "trial_timestamp", "reaction_time", "total_earnings",
      "average_amount_sent", "trust_pattern", "completion_time">>

\* one row of convertToCSV; every field is the text between its two quotes
CsvRow(d, trial) ==
    <<d.participant_id,
      d.experiment,
      d.version,
      d.timestamp,
      IntOrEmpty(d.demographics, "age"),
      StrOrEmpty(d.demographics, "gender"),
      StrOrEmpty(d.demographics, "field"),
      ToString(trial.round),
      ToString(trial.amount_sent),
      ToString(trial.amount_kept),
      ToString(trial.partner_received),
      ToString(trial.amount_returned),
      ToString(trial.final_earnings),
      NumberText(Quot(trial.return_rate, RateDen)),
      trial.timestamp,
      ToString(trial.reaction_time),
      IntOrEmpty(d.summary, "total_earnings"),
      QuotOrEmpty(d.summary, "average_amount_sent"),
      StrOrEmpty(d.summary, "trust_pattern"),
      StrOrEmpty(d.summary, "completion_time")>>

\* [headers, ...rows]: the header row followed by one row per trial
CsvTable(d) ==
    <<headers>> \o [i \in 1..Len(d.trials) |-> CsvRow(d, d.trials[i])]

\* `"${field}"`: the field between two double quotes, nothing escaped
QuoteField(field) == "\"" \o field \o "\""

\* Array.prototype.join
RECURSIVE Join(_, _)
Join(texts, separator) ==
    IF Len(texts) = 0 THEN ""
    ELSE IF Len(texts) = 1 THEN texts[1]
    ELSE texts[1] \o separator \o Join(Tail(texts), separator)

\* one line of the CSV text
CsvLine(row) == Join([k \in 1..Len(row) |-> QuoteField(row[k])], ",")

\* the lines joined by newlines
CsvText(table) == Join([i \in 1..Len(table) |-> CsvLine(table[i])], "\n")

\* the CSV text convertToCSV returns
convertToCSV(d) == CsvText(CsvTable(d))

\* --------------------------------------------------------- OSF DataPipe
\* OSFDataPipe.isConfigured: configure() is called by the DataSubmitter
\* constructor with a fixed experimentId, so it is set on every page
isConfigured == TRUE

\* formatDataForOSF that leaves out the last trial
formatDataForOSF_dropLast(d) ==
    [i \in 1..(Len(d.trials) - 1) |->
        [trial_index |-> i - 1,
         participant_id |-> d.participant_id,
         round |-> d.trials[i].round,
         amount_sent |-> d.trials[i].amount_sent,
         final_earnings |-> d.trials[i].final_earnings,
         rt |-> d.trials[i].reaction_time,
         summary |-> d.summary]]

\* the trial list OSFDataPipe.formatDataForOSF posts
formatDataForOSF(d) ==
    [i \in 1..Len(d.trials) |->
        [trial_index |-> i - 1,
         participant_id |-> d.participant_id,
         round |-> d.trials[i].round,
         amount_sent |-> d.trials[i].amount_sent,
         final_earnings |-> d.trials[i].final_earnings,
         rt |-> d.trials[i].reaction_time,
         summary |-> d.summary]]

\* results of DataSubmitter.submitData; none of the objects it returns has
\* the properties showOSFInstructions and showManualInstructions, which
\* submitDataToRepository reads as falsy
NoResult == [state |-> "pending", success |-> FALSE, method |-> "", fallback |-> FALSE,
     showOSFInstructions |-> FALSE, showManualInstructions |-> FALSE]
OsfSuccess == [state |-> "resolved", success |-> TRUE, method |-> "osf_datapipe", fallback |-> FALSE,
     showOSFInstructions |-> FALSE, showManualInstructions |-> FALSE]
\* the result the first version of submitData returned after saving locally
LocalResult_success == [state |-> "resolved", success |-> TRUE, method |-> "local_storage", fallback |-> FALSE,
     showOSFInstructions |-> FALSE, showManualInstructions |-> FALSE]

LocalResult == [state |-> "resolved", success |-> FALSE, method |-> "local_storage", fallback |-> FALSE,
     showOSFInstructions |-> FALSE, showManualInstructions |-> FALSE]
FallbackResult == [state |-> "resolved", success |-> FALSE, method |-> "local_storage", fallback |-> TRUE,
     showOSFInstructions |-> FALSE, showManualInstructions |-> FALSE]
Rejected == [state |-> "rejected", success |-> FALSE, method |-> "", fallback |-> FALSE,
     showOSFInstructions |-> FALSE, showManualInstructions |-> FALSE]

\* --------------------------------------------------------- local storage
StorageKey(id) == <<"trust_game_data_", id>>

\* the envelope with the name savedAt for the time of the save
Envelope_savedAt(d, now) ==
    [participantId |-> d.participant_id,
     timestamp |-> d.timestamp,
     csvData |-> CsvTable(d),
     savedAt |-> now]

\* the envelope saveToLocalStorage writes; csvData is kept as the table
\* convertToCSV was computed from, the stored text is CsvText of it
Envelope(d, now) ==
    [participantId |-> d.participant_id,
     timestamp |-> d.timestamp,
     csvData |-> CsvTable(d),
     saved |-> now]

setItem(store, key, value) ==
    [k \in DOMAIN store \cup {key} |-> IF k = key THEN value ELSE store[k]]

\* -------------------------------------------------------------------- init
Init ==
    /\ participantId \in ParticipantIds
    /\ screen = "Welcome"
    /\ currentRound = 0
    /\ data = [participant_id |-> participantId,
               timestamp |-> CHOOSE t \in Timestamps : TRUE,
               experiment |-> "trust_game",
               version |-> "1.0",
               demographics |-> EmptyObj,
               trials |-> <<>>,
               summary |-> EmptyObj]
    /\ errorVisible = FALSE
    /\ ageText = <<>>
    /\ genderText = ""
    /\ fieldText = ""
    /\ statusEl = "none"
    /\ sub = <<>>
    /\ localStorage = <<>>
    /\ saveCalls = 0
    /\ unhandled = FALSE
    /\ restarts = 0

\* ------------------------------------------------------------ UI actions
showInstructions ==
    /\ screen = "Welcome"
    /\ screen' = "Instructions"
    /\ UNCHANGED <<currentRound, participantId, data, errorVisible>>
    /\ UNCHANGED <<formVars, pipeVars, restarts>>

\* renders the form: three empty inputs and the hidden error message
showDemographics ==
    /\ screen = "Instructions"
    /\ screen' = "Demographics"
    /\ errorVisible' = FALSE
    /\ ageText' = <<>>
    /\ genderText' = ""
    /\ fieldText' = ""
    /\ UNCHANGED <<currentRound, participantId, data, pipeVars, restarts>>

\* the participant edits the form
typeAge(t) ==
    /\ screen = "Demographics"
    /\ ageText' = t
    /\ UNCHANGED <<uiVars, genderText, fieldText, pipeVars, restarts>>

typeGender(g) ==
    /\ screen = "Demographics"
    /\ genderText' = g
    /\ UNCHANGED <<uiVars, ageText, fieldText, pipeVars, restarts>>

typeField(f) ==
    /\ screen = "Demographics"
    /\ fieldText' = f
    /\ UNCHANGED <<uiVars, ageText, genderText, pipeVars, restarts>>

\* the guard without its comparison: !age
AgeRejected_emptyOnly(age) == age = <<>>

\* the guard of saveDemographics: !age || age < 18
AgeRejected(age) == age = <<>> \/ ToNumber(age) < MinAge

\* what saveDemographics stores for an accepted form
Demographics(age, gender, field) ==
    [age |-> parseInt(age),
     gender |-> IF gender = "" THEN "Not specified" ELSE gender,
     field |-> IF field = "" THEN "Not specified" ELSE field]

\* saveDemographics, showTrustDecision included
saveDemographics ==
    /\ screen = "Demographics"
    /\ LET age == InputValue(ageText) IN
       IF AgeRejected(age)
       THEN /\ errorVisible' = TRUE
            /\ UNCHANGED <<screen, currentRound, data, formVars>>
       ELSE /\ data' = [data EXCEPT !.demographics =
                            Demographics(age, genderText, fieldText)]
            /\ currentRound' = 1
            /\ screen' = "Decision"
            /\ errorVisible' = FALSE
            /\ ageText' = <<>>
            /\ genderText' = ""
            /\ fieldText' = ""
    /\ UNCHANGED <<participantId, pipeVars, restarts>>

\* makeDecision, showFeedback included
makeDecision(amountSent) ==
    /\ screen = "Decision"
    /\ \E now \in Timestamps, reactionTime \in ReactionTimes :
          data' = [data EXCEPT !.trials =
                     Append(@, TrialData(currentRound, amountSent, now, reactionTime))]
    /\ screen' = "Feedback"
    /\ UNCHANGED <<currentRound, participantId, errorVisible>>
    /\ UNCHANGED <<formVars, pipeVars, restarts>>

\* nextRound reachable in every round
nextRound_unguarded ==
    /\ screen = "Feedback"
    /\ currentRound' = currentRound + 1
    /\ screen' = "Decision"
    /\ UNCHANGED <<participantId, data, errorVisible>>
    /\ UNCHANGED <<formVars, pipeVars, restarts>>

\* the button showFeedback renders while currentRound < totalRounds
nextRound ==
    /\ screen = "Feedback"
    /\ currentRound < totalRounds
    /\ currentRound' = currentRound + 1
    /\ screen' = "Decision"
    /\ UNCHANGED <<participantId, data, errorVisible>>
    /\ UNCHANGED <<formVars, pipeVars, restarts>>

\* Summary that totals what the partners returned
Summary_returnedOnly(trials, now) ==
    [total_earnings |-> SumOver(trials, "amount_returned"),
     average_amount_sent |-> Quot(SumOver(trials, "amount_sent"), Len(trials)),
     trust_pattern |-> analyzeTrustPattern(trials),
     completion_time |-> now]

\* the summary literal of showFinalResults
Summary(trials, now) ==
    [total_earnings |-> SumOver(trials, "final_earnings"),
     average_amount_sent |-> Quot(SumOver(trials, "amount_sent"), Len(trials)),
     trust_pattern |-> analyzeTrustPattern(trials),
     completion_time |-> now]

\* the part of submitDataToRepository that runs before its first await:
\* DataSubmitter.submitData, submitViaOSFDataPipe and OSFDataPipe.submitData
\* up to the fetch call, which posts formatDataForOSF(data)
StartSubmission(d) ==
    [stage |-> IF isConfigured THEN "fetch" ELSE "throw",
     payload |-> IF isConfigured THEN formatDataForOSF(d) ELSE <<>>,
     remote |-> "pending",
     osfResult |-> "pending",
     saveTries |-> 0,
     stored |-> FALSE,
     result |-> NoResult]

\* how OSFDataPipe.submitData ends for each way the remote attempt can go:
\* the success object, the failure object of its catch block, or the throw
\* in front of its try block when the client is not configured
pipeSubmitData(remote) ==
    IF remote = "parsed" THEN "success"
    ELSE IF remote = "unconfigured" THEN "threw"
    ELSE "failed"

\* submitViaOSFDataPipe whose else branch throws instead of returning
submitViaOSFDataPipe_rethrow(remote) ==
    IF pipeSubmitData(remote) = "success" THEN "success" ELSE "threw"

\* submitViaOSFDataPipe: the success result, or a failed result both for a
\* failure object and for an exception (its catch block)
submitViaOSFDataPipe(remote) ==
    IF pipeSubmitData(remote) = "success" THEN "success" ELSE "failed"

\* submitData that saves locally whatever the OSF attempt returned
FallsBack_always(osfOk) == TRUE

\* submitData goes on to the local fallback unless osfResult.success
FallsBack(osfOk) == ~osfOk

\* DataSubmitter.submitData after submitViaOSFDataPipe has settled with osf
\* ("success", "failed", or "threw" for an exception); save1 and save2 tell
\* whether the first and the second call of localStorage.setItem return
\* instead of throwing.  An exception, of the OSF attempt or of the first
\* saveToLocalStorage, enters the catch block, which saves once more
submitDataResult(osf, save1, save2) ==
    IF osf = "threw" THEN (IF save1 THEN FallbackResult ELSE Rejected)
    ELSE IF ~FallsBack(osf = "success") THEN OsfSuccess
    ELSE IF save1 THEN LocalResult
    ELSE IF save2 THEN FallbackResult
    ELSE Rejected

\* calls of saveToLocalStorage made by that run of submitData
SaveAttempts(osf, save1) ==
    IF osf = "threw" THEN 1
    ELSE IF ~FallsBack(osf = "success") THEN 0
    ELSE IF save1 THEN 1
    ELSE 2

\* whether one of those calls wrote the envelope
Stored(osf, save1, save2) ==
    /\ SaveAttempts(osf, save1) > 0
    /\ (save1 \/ (SaveAttempts(osf, save1) = 2 /\ save2))

\* the class submitDataToRepository gives the status element
StatusFor(result) ==
    IF result.state = "rejected" THEN "error"
    ELSE IF result.success THEN "success"
    ELSE "warning"

\* what submitDataToRepository renders into the status element for a
\* result without success: the two blocks of instructions, each only when
\* its flag is set, and always the text area with the CSV
WarningContent(result) ==
    [osfInstructions |-> result.showOSFInstructions,
     manualInstructions |-> result.showManualInstructions,
     csv |-> TRUE]

\* the microtask chain that ends submission i once the OSF attempt settled:
\* submitData falls back to saveToLocalStorage(participantData), which reads
\* the live data object, and submitDataToRepository writes the outcome into
\* #data-submission-status, which exists only on the FinalResults screen
Complete(i, remote, save1, save2) ==
    LET osf == submitViaOSFDataPipe(remote)
        result == submitDataResult(osf, save1, save2)
    IN
    /\ sub' = [sub EXCEPT ![i] =
                 [@ EXCEPT !.stage = "done",
                           !.remote = remote,
                           !.osfResult = osf,
                           !.saveTries = SaveAttempts(osf, save1),
                           !.stored = Stored(osf, save1, save2),
                           !.result = result]]
    /\ saveCalls' = saveCalls + SaveAttempts(osf, save1)
    /\ localStorage' =
         IF Stored(osf, save1, save2)
         THEN setItem(localStorage, StorageKey(data.participant_id),
                      Envelope(data, CHOOSE t \in Timestamps : TRUE))
         ELSE localStorage
    /\ IF statusEl = "none"
       THEN unhandled' = TRUE /\ statusEl' = statusEl
       ELSE unhandled' = unhandled /\ statusEl' = StatusFor(result)

\* showFinalResults without the call of submitDataToRepository
showFinalResults_noSubmit ==
    /\ screen = "Feedback"
    /\ ~(currentRound < totalRounds)
    /\ \E now \in Timestamps :
          data' = [data EXCEPT !.summary = Summary(data.trials, now)]
    /\ screen' = "FinalResults"
    /\ statusEl' = "submitting"
    /\ UNCHANGED <<currentRound, participantId, errorVisible, sub>>
    /\ UNCHANGED <<formVars, localStorage, saveCalls, unhandled, restarts>>

\* the button showFeedback renders in the last round
showFinalResults ==
    /\ screen = "Feedback"
    /\ ~(currentRound < totalRounds)
    /\ \E now \in Timestamps :
          data' = [data EXCEPT !.summary = Summary(data.trials, now)]
    /\ sub' = Append(sub, StartSubmission(data'))
    /\ screen' = "FinalResults"
    /\ statusEl' = "submitting"
    /\ UNCHANGED <<currentRound, participantId, errorVisible>>
    /\ UNCHANGED <<formVars, localStorage, saveCalls, unhandled, restarts>>

\* restart that forgets to empty data.trials
restart_keepTrials(ok) ==
    /\ screen = "FinalResults"
    /\ IF ok
       THEN /\ data' = data
            /\ currentRound' = 0
            /\ screen' = "Welcome"
            /\ statusEl' = "none"
            /\ restarts' = restarts + 1
       ELSE UNCHANGED <<data, currentRound, screen, statusEl, restarts>>
    /\ UNCHANGED <<participantId, errorVisible, formVars>>
    /\ UNCHANGED <<sub, localStorage, saveCalls, unhandled>>

\* restart with the confirm() dialog accepted (ok) or dismissed
restart(ok) ==
    /\ screen = "FinalResults"
    /\ IF ok
       THEN /\ data' = [data EXCEPT !.trials = <<>>]
            /\ currentRound' = 0
            /\ screen' = "Welcome"
            /\ statusEl' = "none"
            /\ restarts' = restarts + 1
       ELSE UNCHANGED <<data, currentRound, screen, statusEl, restarts>>
    /\ UNCHANGED <<participantId, errorVisible, formVars>>
    /\ UNCHANGED <<sub, localStorage, saveCalls, unhandled>>

\* ------------------------------------------------------ network callbacks
\* the fetch of submission i settles: a response with response.ok, a
\* response with an error status, or a rejection (network error)
fetchSettles(i, outcome, save1, save2) ==
    /\ i \in 1..Len(sub)
    /\ sub[i].stage = "fetch"
    /\ CASE outcome = "ok" ->
              /\ sub' = [sub EXCEPT ![i].stage = "json"]
              /\ UNCHANGED <<statusEl, localStorage, saveCalls, unhandled>>
         [] outcome = "http_error" ->
              /\ sub' = [sub EXCEPT ![i].stage = "text"]
              /\ UNCHANGED <<statusEl, localStorage, saveCalls, unhandled>>
         [] outcome = "network_error" ->
              Complete(i, "network_error", save1, save2)
    /\ UNCHANGED <<uiVars, formVars, restarts>>

\* the body of the response settles: response.json() yields the result
\* (parsed) or throws; response.text() is followed by a throw either way
bodySettles(i, parsed, save1, save2) ==
    /\ i \in 1..Len(sub)
    /\ sub[i].stage \in {"json", "text"}
    /\ Complete(i,
                IF sub[i].stage = "text" THEN "http_error"
                ELSE IF parsed THEN "parsed" ELSE "malformed",
                save1, save2)
    /\ UNCHANGED <<uiVars, formVars, restarts>>

FetchOutcomes == {"ok", "http_error", "network_error"}

\* saves: the outcomes localStorage.setItem can have (TRUE: it returns)
Network(saves) ==
    \E i \in 1..Len(sub), save1 \in saves, save2 \in saves :
        \/ \E outcome \in FetchOutcomes : fetchSettles(i, outcome, save1, save2)
        \/ \E parsed \in BOOLEAN : bodySettles(i, parsed, save1, save2)

\* ------------------------------------------------------------------- specs
\* one session: the participant types any text over AgeChars of at most
\* MaxAgeLen characters into the age input, uses all three decision buttons
\* and dismisses the restart dialog
Next ==
    \/ showInstructions
    \/ showDemographics
    \/ \E t \in AgeTexts : typeAge(t)
    \/ \E g \in GenderInputs : typeGender(g)
    \/ \E f \in FieldInputs : typeField(f)
    \/ saveDemographics
    \/ \E a \in Amounts : makeDecision(a)
    \/ nextRound
    \/ showFinalResults
    \/ restart(FALSE)
    \/ Network(BOOLEAN)

Spec == Init /\ [][Next]_vars

\* one page followed across up to MaxRestarts confirmed restarts, with the
\* narrower choices above and a localStorage that accepts every write
NextRestart ==
    \/ showInstructions
    \/ showDemographics
    \/ \E t \in RestartAgeTexts : typeAge(t)
    \/ \E g \in GenderInputs : typeGender(g)
    \/ \E f \in RestartFieldInputs : typeField(f)
    \/ saveDemographics
    \/ \E a \in RestartAmounts(restarts) : makeDecision(a)
    \/ nextRound
    \/ showFinalResults
    \/ \E ok \in BOOLEAN : (ok => restarts < MaxRestarts) /\ restart(ok)
    \/ Network({TRUE})

SpecRestart == Init /\ [][NextRestart]_vars

\* the endpoint never answers the request of submission i: the awaited
\* fetch, or the awaited body, never settles, and nothing else ends the wait
remoteHangs(i) ==
    /\ i \in 1..Len(sub)
    /\ sub[i].stage \in {"fetch", "json", "text"}
    /\ sub' = [sub EXCEPT ![i].stage = "hung"]
    /\ UNCHANGED <<statusEl, localStorage, saveCalls, unhandled>>
    /\ UNCHANGED <<uiVars, formVars, restarts>>

\* one session in which the endpoint may also stay silent
NextLive ==
    \/ showInstructions
    \/ showDemographics
    \/ \E t \in RestartAgeTexts : typeAge(t)
    \/ \E g \in GenderInputs : typeGender(g)
    \/ \E f \in RestartFieldInputs : typeField(f)
    \/ saveDemographics
    \/ \E a \in RestartAmounts(0) : makeDecision(a)
    \/ nextRound
    \/ showFinalResults
    \/ restart(FALSE)
    \/ Network({TRUE})
    \/ \E i \in 1..Len(sub) : remoteHangs(i)

\* every request that is answered at all is answered eventually, and the
\* event loop then runs the continuation; the participant may stop anywhere
SpecLive == Init /\ [][NextLive]_vars /\ WF_vars(Network({TRUE}))

\* one session of a participant whose field of study may hold double
\* quotes and a comma, with the endpoint silent
NextCsv ==
    \/ showInstructions
    \/ showDemographics
    \/ \E t \in RestartAgeTexts : typeAge(t)
    \/ \E g \in GenderInputs : typeGender(g)
    \/ \E f \in CsvFieldInputs : typeField(f)
    \/ saveDemographics
    \/ \E a \in Amounts : makeDecision(a)
    \/ nextRound
    \/ showFinalResults
    \/ restart(FALSE)

SpecCsv == Init /\ [][NextCsv]_vars

\* ------------------------------------------------------------------ claims
Trials == data.trials
AmountsSent == [i \in 1..Len(Trials) |-> Trials[i].amount_sent]
Earnings == [i \in 1..Len(Trials) |-> Trials[i].final_earnings]

\* rounds the participant has decided in the current session
CompletedRounds ==
    CASE screen = "Decision" -> currentRound - 1
      [] screen \in {"Feedback", "FinalResults"} -> currentRound
      [] OTHER -> 0

\* C1: data.trials never holds more than 5 entries, its i-th entry (counted
\* from 1) carries round i, and after k completed rounds it holds k entries
C1_TrialsInRoundOrder ==
    /\ Len(Trials) <= 5
    /\ \A i \in 1..Len(Trials) : Trials[i].round = i
    /\ Len(Trials) = CompletedRounds

\* a second session, after a restart, has recorded its five rounds
C1_Witness ==
    /\ restarts = 1
    /\ screen = "FinalResults"
    /\ Len(Trials) = 5

\* the return-rate table of the claim, in tenths
ClaimRates == <<3, 6, 1, 8, 4>>

\* C2: every recorded trial keeps 10 - sent, hands the partner 3 * sent + 10,
\* gets back floor(sent * 3 * rate of its round) and earns kept + returned
C2_TrialArithmetic ==
    \A i \in 1..Len(Trials) :
        LET t == Trials[i] IN
        /\ t.amount_sent \in {0, 5, 10}
        /\ t.round \in 1..5
        /\ t.amount_kept + t.amount_sent = 10
        /\ t.partner_received = t.amount_sent * 3 + 10
        /\ 10 * t.amount_returned <= t.amount_sent * 3 * ClaimRates[t.round]
        /\ t.amount_sent * 3 * ClaimRates[t.round] < 10 * (t.amount_returned + 1)
        /\ t.final_earnings = t.amount_kept + t.amount_returned

\* a finished session that sent 5 in rounds 1 and 3, where the product is
\* not whole (4.5 and 1.5)
C2_Witness ==
    /\ screen = "FinalResults"
    /\ Trials[1].amount_sent = 5
    /\ Trials[3].amount_sent = 5
    /\ Trials[3].amount_returned = 1

\* C3: age 25 and the decisions 0, 5, 10, 5, 0 end in FinalResults with the
\* earnings 10, 14, 3, 17, 10, a total of 54, a mean of 4 and "Low Trust"
C3_EndToEnd ==
    (/\ screen = "FinalResults"
     /\ data.demographics.age = 25
     /\ AmountsSent = <<0, 5, 10, 5, 0>>)
    => /\ Earnings = <<10, 14, 3, 17, 10>>
       /\ data.summary.total_earnings = 54
       /\ data.summary.average_amount_sent.num = 4 * data.summary.average_amount_sent.den
       /\ data.summary.average_amount_sent.den > 0
       /\ data.summary.trust_pattern = "Low Trust"

\* the scenario has been played to the end
C3_Witness ==
    /\ screen = "FinalResults"
    /\ data.demographics.age = 25
    /\ AmountsSent = <<0, 5, 10, 5, 0>>
    /\ data.summary.total_earnings = 54

\* the category of a mean, by the intervals of the claim
ClaimCategory(q) ==
    CHOOSE c \in {"High Trust", "Moderate Trust", "Low Trust", "Very Low Trust"} :
        /\ c = "High Trust" <=> q.num >= 8 * q.den
        /\ c = "Moderate Trust" <=> (q.num >= 5 * q.den /\ q.num < 8 * q.den)
        /\ c = "Low Trust" <=> (q.num >= 2 * q.den /\ q.num < 5 * q.den)
        /\ c = "Very Low Trust" <=> q.num < 2 * q.den

\* C4: the stored trust_pattern is the category of the stored mean, with
\* closed lower bounds at 8, 5 and 2
C4_TrustPatternMatchesMean ==
    ~IsEmptyObj(data.summary) =>
        /\ data.summary.average_amount_sent.den > 0
        /\ data.summary.trust_pattern = ClaimCategory(data.summary.average_amount_sent)

\* a finished session whose mean is exactly 5
C4_Witness ==
    /\ screen = "FinalResults"
    /\ data.summary.average_amount_sent.num = 5 * data.summary.average_amount_sent.den
    /\ data.summary.trust_pattern = "Moderate Trust"

\* C5: whenever data.summary is set, the sum of final_earnings and the mean
\* of amount_sent over the current data.trials equal the stored summary
C5_SummaryIsFoldOfTrials ==
    ~IsEmptyObj(data.summary) =>
        /\ data.summary.total_earnings = SumOver(Trials, "final_earnings")
        /\ QuotEq(data.summary.average_amount_sent,
                  Quot(SumOver(Trials, "amount_sent"), Len(Trials)))

\* the age input is empty or holds a value below 18
ClaimAgeInvalid ==
    \/ InputValue(ageText) = <<>>
    \/ ToNumber(InputValue(ageText)) < 18

\* C6: a call of saveDemographics with the age input empty or below 18 stays
\* on Demographics, shows the error message and leaves data.demographics,
\* data.trials and currentRound as they were
\* (a step that edits no input and is no network callback is the call)
C6_InvalidAgeRejected ==
    [][(screen = "Demographics" /\ ClaimAgeInvalid)
       => (/\ screen' = "Demographics"
           /\ data'.demographics = data.demographics
           /\ data'.trials = data.trials
           /\ currentRound' = currentRound
           /\ (UNCHANGED formVars /\ UNCHANGED pipeVars) => errorVisible' = TRUE)]_vars

\* the form was sent with the age 11 and the error message is shown
C6_Witness ==
    /\ screen = "Demographics"
    /\ ageText = <<"1", "1">>
    /\ errorVisible
    /\ IsEmptyObj(data.demographics)

\* C7: in Decision, Feedback and FinalResults the stored age is an integer
\* of at least 18 and gender and field are non-empty strings
C7_DemographicsValid ==
    screen \in {"Decision", "Feedback", "FinalResults"} =>
        /\ data.demographics.age \in Int
        /\ data.demographics.age >= 18
        /\ data.demographics.gender # ""
        /\ data.demographics.field # ""

\* C8: Feedback(r) is left only by nextRound to Decision(r+1) when r < 5 and
\* by showFinalResults when r = 5; FinalResults is entered with 5 trials and
\* no Decision screen beyond round 5 is entered
C8_FeedbackTransitions ==
    [][/\ (screen = "Feedback" /\ screen' # "Feedback") =>
            IF currentRound < 5
            THEN screen' = "Decision" /\ currentRound' = currentRound + 1
            ELSE screen' = "FinalResults" /\ currentRound' = currentRound
       /\ (screen' = "FinalResults") => Len(data'.trials) = 5
       /\ (screen' = "Decision") => currentRound' <= 5]_vars

\* FinalResults entered from Feedback(5)
C8_Witness ==
    /\ screen = "FinalResults"
    /\ currentRound = 5
    /\ Len(Trials) = 5

\* sessions that reached FinalResults: each restart leaves one behind
CompletedSessions == restarts + (IF screen = "FinalResults" THEN 1 ELSE 0)

\* C9: DataSubmitter.submitData has been called exactly once for every
\* session that reached FinalResults
C9_SubmitOncePerSession == Len(sub) = CompletedSessions

\* two sessions completed on one page, two submissions
C9_Witness ==
    /\ restarts = 1
    /\ screen = "FinalResults"
    /\ Len(sub) = 2

\* C10: when the OSF DataPipe attempt of a submission succeeds, submitData
\* returns that success result, saveToLocalStorage is not called and
\* localStorage stays as it was
C10_SuccessStopsPipeline ==
    [][\A i \in 1..Len(sub) :
          (/\ sub[i].stage # "done"
           /\ sub'[i].stage = "done"
           /\ sub'[i].osfResult = "success")
          => (/\ sub'[i].result = OsfSuccess
              /\ saveCalls' = saveCalls
              /\ localStorage' = localStorage)]_vars

\* the first session fell back to localStorage, the second one succeeded
\* through OSF DataPipe
C10_Witness ==
    /\ Len(sub) = 2
    /\ sub[1].result = LocalResult
    /\ sub[2].osfResult = "success"
    /\ sub[2].result = OsfSuccess
    /\ DOMAIN localStorage # {}
    /\ saveCalls = 1

\* ------------------------------------------------------- reading CSV
\* a reader of CSV text after RFC 4180: fields are separated by commas,
\* records by newlines; a field that starts with a double quote runs to the
\* closing double quote, in which two double quotes stand for one; text
\* between a closing quote and the next separator is kept as it is
CharAt(text, i) == SubSeq(text, i, i)

RECURSIVE ReadPlain(_, _, _)
ReadPlain(text, i, acc) ==
    IF i > Len(text) \/ CharAt(text, i) \in {",", "\n"}
    THEN [field |-> acc, next |-> i]
    ELSE ReadPlain(text, i + 1, acc \o CharAt(text, i))

RECURSIVE ReadQuoted(_, _, _)
ReadQuoted(text, i, acc) ==
    IF i > Len(text) THEN [field |-> acc, next |-> i]
    ELSE IF CharAt(text, i) # "\"" THEN ReadQuoted(text, i + 1, acc \o CharAt(text, i))
    ELSE IF i < Len(text) /\ CharAt(text, i + 1) = "\""
         THEN ReadQuoted(text, i + 2, acc \o "\"")
    ELSE ReadPlain(text, i + 1, acc)

ReadField(text, i) ==
    IF i <= Len(text) /\ CharAt(text, i) = "\""
    THEN ReadQuoted(text, i + 1, "")
    ELSE ReadPlain(text, i, "")

RECURSIVE ReadRecord(_, _, _)
ReadRecord(text, i, row) ==
    LET f == ReadField(text, i) IN
    IF f.next <= Len(text) /\ CharAt(text, f.next) = ","
    THEN ReadRecord(text, f.next + 1, Append(row, f.field))
    ELSE [row |-> Append(row, f.field), next |-> f.next]

RECURSIVE ReadRecords(_, _, _)
ReadRecords(text, i, rows) ==
    LET r == ReadRecord(text, i, <<>>) IN
    IF r.next <= Len(text)
    THEN ReadRecords(text, r.next + 1, Append(rows, r.row))
    ELSE Append(rows, r.row)

parseCSV(text) == IF text = "" THEN <<>> ELSE ReadRecords(text, 1, <<>>)

\* ------------------------------------------------------- C11 .. C20
\* submissions whose run of submitData has ended
Done == {i \in 1..Len(sub) : sub[i].stage = "done"}

\* submission i is completed by the step
Completes(i) == sub[i].stage # "done" /\ sub'[i].stage = "done"

\* C11 as stated: when the OSF DataPipe attempt failed and saveToLocalStorage
\* wrote the record, submitData reports success = true with the local
\* fallback as the method
C11_FallbackReportsSuccess ==
    \A i \in Done :
        (sub[i].osfResult = "failed" /\ sub[i].stored)
        => (/\ sub[i].result.state = "resolved"
            /\ sub[i].result.success = TRUE
            /\ sub[i].result.method = "local_storage")

\* C11 amended: when the OSF DataPipe attempt failed and saveToLocalStorage
\* wrote the record, submitData resolves with success = false and method
\* 'local_storage'
C11_FallbackReportsLocalStorage ==
    \A i \in Done :
        (sub[i].osfResult = "failed" /\ sub[i].stored)
        => (/\ sub[i].result.state = "resolved"
            /\ sub[i].result.success = FALSE
            /\ sub[i].result.method = "local_storage")

\* a malformed response body, and the record written at the first attempt
C11_Witness ==
    /\ Len(sub) = 1
    /\ sub[1].stage = "done"
    /\ sub[1].remote = "malformed"
    /\ sub[1].osfResult = "failed"
    /\ sub[1].stored
    /\ sub[1].result = LocalResult
    /\ DOMAIN localStorage = {StorageKey(participantId)}

\* C12: the csvData a submission's local fallback writes holds the header
\* and the 5 trial rows of the session that was submitted (the rounds and
\* amounts of the payload posted for it), whatever happened on the page
\* while the OSF attempt was pending
C12_FallbackKeepsAllTrials ==
    [][\A i \in 1..Len(sub) :
          (Completes(i) /\ sub'[i].stored)
          => LET key == StorageKey(sub[i].payload[1].participant_id)
                 csv == localStorage'[key].csvData
             IN /\ key \in DOMAIN localStorage'
                /\ Len(csv) = totalRounds + 1
                /\ \A k \in 1..totalRounds :
                      /\ csv[k + 1][8] = ToString(sub[i].payload[k].round)
                      /\ csv[k + 1][9] = ToString(sub[i].payload[k].amount_sent)]_vars

\* C13: every run of submitData that has ended has resolved with a result
\* object; none has rejected
C13_NeverRejects ==
    \A i \in Done : sub[i].result.state = "resolved"

\* C14: one run of submitData calls saveToLocalStorage at most once
C14_SaveAtMostOnce ==
    \A i \in 1..Len(sub) : sub[i].saveTries <= 1

\* C15: saveToLocalStorage runs, and localStorage changes, only in the step
\* in which the pending OSF DataPipe attempt of a submission resolves as a
\* failure; while that attempt is in flight nothing has been saved for the
\* submission
C15_FallbackOnlyAfterRemoteFailure ==
    [][/\ (saveCalls' # saveCalls \/ localStorage' # localStorage)
          => \E i \in 1..Len(sub) :
                /\ Completes(i)
                /\ sub[i].osfResult = "pending"
                /\ sub[i].saveTries = 0
                /\ sub'[i].osfResult = "failed"
                /\ saveCalls' - saveCalls = sub'[i].saveTries
       /\ \A i \in 1..Len(sub') :
             sub'[i].stage # "done"
             => (sub'[i].saveTries = 0 /\ ~sub'[i].stored)]_vars

\* the fetch failed, the first write threw and the second one stored the
\* record
C15_Witness ==
    /\ Len(sub) = 1
    /\ sub[1].stage = "done"
    /\ sub[1].remote = "network_error"
    /\ sub[1].osfResult = "failed"
    /\ sub[1].saveTries = 2
    /\ sub[1].stored
    /\ saveCalls = 2

\* the ways the remote attempt can fail
RemoteFailures == {"network_error", "http_error", "malformed", "unconfigured"}

\* C16: submitViaOSFDataPipe turns every failure of the remote attempt into
\* a failed result, never into an exception, and the submission then calls
\* saveToLocalStorage
C16_RemoteFailureFallsThrough ==
    /\ \A remote \in RemoteFailures : submitViaOSFDataPipe(remote) = "failed"
    /\ [][\A i \in 1..Len(sub) :
             (Completes(i) /\ sub'[i].remote \in RemoteFailures)
             => (/\ sub'[i].osfResult = "failed"
                 /\ sub'[i].saveTries >= 1
                 /\ saveCalls' > saveCalls)]_vars

\* an error status of the endpoint ended in the local record
C16_Witness ==
    /\ Len(sub) = 1
    /\ sub[1].stage = "done"
    /\ sub[1].remote = "http_error"
    /\ sub[1].osfResult = "failed"
    /\ sub[1].result = LocalResult
    /\ saveCalls = 1
    /\ DOMAIN localStorage # {}

\* C17: every submission that was started eventually ends with an outcome
\* reported to the caller
C17_EventuallyReports ==
    (Len(sub) >= 1) ~> (Len(sub) >= 1 /\ sub[1].stage = "done")

\* the step is a confirmed restart
Restarts == screen = "FinalResults" /\ screen' # "FinalResults"

\* C18: submitData is called only in the step that enters FinalResults;
\* the session then holds 5 trials with rounds 1..5 and the summary
\* computed from them, the payload posted holds exactly those 5 trials, and
\* no later step changes the payload of a submission
C18_PayloadIsTheFinishedSession ==
    [][/\ Len(sub') # Len(sub)
          => LET payload == sub'[Len(sub')].payload IN
             /\ Len(sub') = Len(sub) + 1
             /\ screen = "Feedback"
             /\ screen' = "FinalResults"
             /\ Len(data'.trials) = totalRounds
             /\ \A k \in 1..totalRounds : data'.trials[k].round = k
             /\ Has(data'.summary, "total_earnings")
             /\ data'.summary.total_earnings
                   = SumOver(data'.trials, "final_earnings")
             /\ Len(payload) = totalRounds
             /\ \A k \in 1..totalRounds :
                   /\ payload[k].round = k
                   /\ payload[k].amount_sent = data'.trials[k].amount_sent
                   /\ payload[k].final_earnings = data'.trials[k].final_earnings
                   /\ payload[k].rt = data'.trials[k].reaction_time
                   /\ payload[k].summary = data'.summary
       /\ \A i \in 1..Len(sub) : sub'[i].payload = sub[i].payload]_vars

\* the request of the first session is still in flight, with its 5 trials,
\* while the second session is in its second round
C18_Witness ==
    /\ restarts = 1
    /\ Len(sub) = 1
    /\ sub[1].stage = "fetch"
    /\ Len(sub[1].payload) = totalRounds
    /\ screen = "Decision"
    /\ currentRound = 2
    /\ Len(data.trials) = 1

\* C19: a confirmed restart leads from FinalResults to Welcome with
\* data.trials empty and currentRound 0, every trial recorded is appended
\* with the next round number, and FinalResults is entered with rounds 1..5
C19_RestartResetsRounds ==
    [][/\ Restarts
          => (/\ screen' = "Welcome"
              /\ data'.trials = <<>>
              /\ currentRound' = 0)
       /\ Len(data'.trials) > Len(data.trials)
          => (/\ Len(data'.trials) = Len(data.trials) + 1
              /\ data'.trials[Len(data'.trials)].round = Len(data'.trials))
       /\ (screen # "FinalResults" /\ screen' = "FinalResults")
          => (/\ Len(data'.trials) = totalRounds
              /\ \A k \in 1..totalRounds : data'.trials[k].round = k)]_vars

\* the first trial of the session after the restart
C19_Witness ==
    /\ restarts = 1
    /\ screen = "Feedback"
    /\ currentRound = 1
    /\ Len(data.trials) = 1
    /\ data.trials[1].round = 1

\* C20: a confirmed restart changes participantId and data.participant_id
C20_RestartDrawsFreshId ==
    [][Restarts
       => (/\ participantId' # participantId
           /\ data'.participant_id # data.participant_id)]_vars

\* ------------------------------------------------------- C21 .. C30
\* C21: every step that changes localStorage is the local fallback of a
\* submission writing a key that held no record before, so no stored
\* record is overwritten
C21_NoRecordOverwritten ==
    [][localStorage' # localStorage
       => /\ \E i \in 1..Len(sub) : Completes(i) /\ sub'[i].stored
          /\ \A k \in DOMAIN localStorage : localStorage'[k] = localStorage[k]
          /\ Cardinality(DOMAIN localStorage') = Cardinality(DOMAIN localStorage) + 1]_vars

\* the CSV text of the current record, read back
ParsedCsv == parseCSV(convertToCSV(data))

\* columns that carry session-level fields
SessionColumns == (1..7) \cup (17..20)

\* C22: the CSV text reads back as the header row followed by one row per
\* trial in round order, every row with the 20 columns of the header, and
\* the session-level columns are the same on every row
C22_HeaderAndOneRowPerTrial ==
    LET csv == ParsedCsv IN
    /\ Len(csv) = 1 + Len(data.trials)
    /\ csv[1] = headers
    /\ \A r \in 2..Len(csv) :
          /\ Len(csv[r]) = 20
          /\ csv[r][8] = ToString(r - 1)
          /\ csv[r][1] = data.participant_id
          /\ \A c \in SessionColumns : csv[r][c] = csv[2][c]

\* the text is the decimal numeral of a number up to max
IsNumeral(text, max) == \E n \in 0..max : ToString(n) = text

NumeralValue(text, max) == CHOOSE n \in 0..max : ToString(n) = text

\* sum of the numerals in column c of the data rows 2..r
RECURSIVE ColumnSum(_, _, _, _)
ColumnSum(csv, c, r, max) ==
    IF r < 2 THEN 0
    ELSE NumeralValue(csv[r][c], max) + ColumnSum(csv, c, r - 1, max)

\* C23: on FinalResults the CSV text reads back as the header and exactly
\* 5 data rows, and the numbers in their final_earnings column add up to
\* summary.total_earnings
C23_CsvRowsSumToTotal ==
    screen = "FinalResults"
    => LET csv == ParsedCsv
           total == data.summary.total_earnings
       IN /\ Len(csv) = 1 + totalRounds
          /\ csv[1][13] = "final_earnings"
          /\ \A r \in 2..Len(csv) :
                Len(csv[r]) >= 13 /\ IsNumeral(csv[r][13], total)
          /\ ColumnSum(csv, 13, Len(csv), total) = total

\* C24: on FinalResults every data row of the CSV text, read back, holds
\* the text of every field of its trial and of every summary field
C24_CsvRecoversEveryField ==
    screen = "FinalResults"
    => LET csv == ParsedCsv IN
       /\ Len(csv) = 1 + totalRounds
       /\ \A r \in 2..Len(csv) :
             LET t == data.trials[r - 1] IN
             /\ Len(csv[r]) = 20
             /\ csv[r][8] = ToString(t.round)
             /\ csv[r][9] = ToString(t.amount_sent)
             /\ csv[r][10] = ToString(t.amount_kept)
             /\ csv[r][11] = ToString(t.partner_received)
             /\ csv[r][12] = ToString(t.amount_returned)
             /\ csv[r][13] = ToString(t.final_earnings)
             /\ csv[r][14] = NumberText(Quot(t.return_rate, RateDen))
             /\ csv[r][15] = t.timestamp
             /\ csv[r][16] = ToString(t.reaction_time)
             /\ csv[r][17] = ToString(data.summary.total_earnings)
             /\ csv[r][18] = NumberText(data.summary.average_amount_sent)
             /\ csv[r][19] = data.summary.trust_pattern
             /\ csv[r][20] = data.summary.completion_time

\* C25: every line of the CSV text reads back as the 20 fields it was
\* written from, whatever characters the fields hold
C25_EveryRowReadsBackAs20Fields ==
    LET csv == ParsedCsv
        table == CsvTable(data)
    IN /\ Len(csv) = Len(table)
       /\ \A r \in 1..Len(csv) : Len(csv[r]) = 20 /\ csv[r] = table[r]

\* C26 as stated: every record in localStorage is stored under
\* "trust_game_data_" followed by its participant id and has exactly the
\* fields participantId, timestamp, csvData and savedAt
C26_EnvelopeWithSavedAt ==
    \A k \in DOMAIN localStorage :
        /\ DOMAIN localStorage[k] = {"participantId", "timestamp", "csvData", "savedAt"}
        /\ k = <<"trust_game_data_", localStorage[k].participantId>>

\* C26 amended: every record in localStorage is stored under
\* "trust_game_data_" followed by its participant id and has exactly the
\* fields participantId, timestamp, csvData and saved
C26_EnvelopeWithSaved ==
    \A k \in DOMAIN localStorage :
        /\ DOMAIN localStorage[k] = {"participantId", "timestamp", "csvData", "saved"}
        /\ k = <<"trust_game_data_", localStorage[k].participantId>>
        /\ localStorage[k].participantId = data.participant_id
        /\ localStorage[k].timestamp = data.timestamp

\* a record written by the catch block of submitData
C26_Witness ==
    /\ Len(sub) = 1
    /\ sub[1].result = FallbackResult
    /\ <<"trust_game_data_", participantId>> \in DOMAIN localStorage
    /\ localStorage[<<"trust_game_data_", participantId>>].saved \in Timestamps

\* C27: when submitData resolves without success the status element gets
\* the warning with instructions for manual submission and with the CSV
C27_FailureShowsInstructions ==
    [][\A i \in 1..Len(sub) :
          (/\ Completes(i)
           /\ sub'[i].result.state = "resolved"
           /\ ~sub'[i].result.success)
          => LET shown == WarningContent(sub'[i].result) IN
             /\ statusEl' = "warning"
             /\ shown.osfInstructions \/ shown.manualInstructions
             /\ shown.csv]_vars

\* C28: a confirmed restart leaves data.trials, data.demographics and
\* data.summary empty
C28_RestartClearsRecord ==
    [][Restarts
       => (/\ data'.trials = <<>>
           /\ IsEmptyObj(data'.demographics)
           /\ IsEmptyObj(data'.summary))]_vars

\* C29: no continuation of submitDataToRepository has ended in an error
\* nobody handles
C29_NoUnhandledError == unhandled = FALSE

\* C30: currentRound is in 0..5 and, with the trial list, fits the screen
C30_RoundAndTrialsInStep ==
    /\ currentRound \in 0..totalRounds
    /\ screen \in {"Welcome", "Instructions", "Demographics"}
       => (currentRound = 0 /\ data.trials = <<>>)
    /\ screen = "Decision"
       => (currentRound \in 1..totalRounds /\ Len(data.trials) = currentRound - 1)
    /\ screen = "Feedback"
       => (currentRound \in 1..totalRounds /\ Len(data.trials) = currentRound)
    /\ screen = "FinalResults"
       => (currentRound = totalRounds /\ Len(data.trials) = totalRounds)

\* the form of the session after a restart, before its first round
C30_Witness ==
    /\ restarts = 1
    /\ screen = "Demographics"
    /\ currentRound = 0
    /\ data.trials = <<>>
    /\ ~IsEmptyObj(data.summary)

====
